---- MODULE Spec2Model ----
(***************************************************************************)
(* Model of SecureDataProcessor (src/Python_Exam/Security_issue.py):       *)
(* the outbound call limiter of call_external_api and the webhook          *)
(* pipeline of process_webhook_data with the operations it calls.          *)
(***************************************************************************)
EXTENDS Integers, Sequences, FiniteSets, TLC

(***************************************************************************)
(* Program constants and model bounds                                      *)
(***************************************************************************)
\* self.max_requests_per_minute = 60 (__init__)
max_requests_per_minute == 60

\* Bound on outbound calls that end without a response (timeout / error).
MaxFailures == 2
\* Bound on rejected call_external_api calls.
MaxRejects == 2
\* Bound on the number of window lengths that elapse.
MaxWindows == 1
\* Bound on the calls started by the concurrent callers together.
MaxThreadCalls == 4
\* Bound on the process_webhook_data calls.
MaxRequests == 1
\* Bound on the fetch_user_data calls.
MaxFetches == 2
\* Bound on the number of components of a file path.
MaxPathLen == 3
\* Bound on the length of the identifiers enumerated character by character.
MaxIdLen == 3

Threads == {1, 2}

VARIABLES
    request_count,  \* self.request_count
    window,         \* observer's ledger of the current window: its index, and
                    \* the calls, POSTs and rejections seen in it
    totals,         \* observer's ledger since construction
    last,           \* the latest completed call_external_api call
    pc,             \* position of each concurrent caller in call_external_api
    tmp,            \* the value each caller loaded for request_count += 1
    started         \* calls started by the concurrent callers

rateVars == <<request_count, window, totals, last, pc, tmp, started>>

VARIABLES
    WEBHOOK_SECRET, \* the environment variable read by the verifier
    request,        \* the arguments of the latest process_webhook_data call
    response,       \* what that call returned, or that it raised
    stages,         \* the pipeline stages that call went through
    handler,        \* the action handler that call invoked
    db,             \* the storage events of that call
    handled         \* the process_webhook_data calls made

webVars == <<WEBHOOK_SECRET, request, response, stages, handler, db, handled>>

VARIABLES
    fetch,          \* the latest fetch_user_data call: its argument, what the
                    \* storage layer did, the value returned, the storage events
    prevFetch,      \* the fetch_user_data call before it
    fetches,        \* the fetch_user_data calls made
    audit_log       \* the rows of the audit_log table

fetchVars == <<fetch, prevFetch, fetches, audit_log>>

VARIABLES
    upload,         \* the latest upload_to_cloud call
    validated,      \* the latest validate_user_input call
    verified        \* the latest validate_webhook_signature call

libVars == <<upload, validated, verified>>

opVars == <<fetchVars, libVars>>

vars == <<rateVars, webVars, opVars>>

(***************************************************************************)
(* call_external_api                                                       *)
(***************************************************************************)
\* What self.session.post can do: return a response with a status code,
\* raise requests.exceptions.Timeout, raise another RequestException.
Outcomes == {"ok200", "status429", "status500", "timeout", "request_error"}

Responded(outcome) == outcome \in {"ok200", "status429", "status500"}

AtCapacity_OffByOne(count) == count > max_requests_per_minute

\* if self.request_count >= self.max_requests_per_minute: ... return None
AtCapacity(count) == count >= max_requests_per_minute

\* self.request_count += 1, reached only after session.post returned
CountAfterPost(count, outcome) ==
    IF Responded(outcome) THEN count + 1 ELSE count

\* self.request_count once a whole call has run: unchanged by the early
\* return, incremented after a response otherwise
CountAfterCall_CountRejected(count, outcome) ==
    IF AtCapacity(count) THEN count + 1 ELSE CountAfterPost(count, outcome)

CountAfterCall(count, outcome) ==
    IF AtCapacity(count) THEN count ELSE CountAfterPost(count, outcome)

\* The value call_external_api returns
ApiReturn(admitted, outcome) ==
    IF admitted /\ outcome = "ok200" THEN "json" ELSE "None"

NoCall ==
    [called |-> FALSE, admitted |-> FALSE, outcome |-> "none", ret |-> "None",
     countBefore |-> 0, countAfter |-> 0, window |-> 0, firstInWindow |-> FALSE,
     prevWindowRejected |-> FALSE, posted |-> FALSE]

InitRate ==
    /\ request_count = 0
    /\ window = [index |-> 0, calls |-> 0, posts |-> 0, rejects |-> 0,
                 prevRejects |-> 0]
    /\ totals = [calls |-> 0, failures |-> 0, rejects |-> 0, responses |-> 0]
    /\ last = NoCall
    /\ pc = [t \in Threads |-> "idle"]
    /\ tmp = [t \in Threads |-> 0]
    /\ started = 0

\* One whole call of call_external_api by a single caller.
CallExternalApi(outcome) ==
    LET admitted == ~AtCapacity(request_count)
        after == CountAfterCall(request_count, outcome)
    IN  /\ admitted => (Responded(outcome) \/ totals.failures < MaxFailures)
        /\ ~admitted => (outcome = "ok200" /\ totals.rejects < MaxRejects)
        /\ request_count' = after
        /\ window' = [window EXCEPT !.calls = @ + 1,
                                    !.posts = IF admitted THEN @ + 1 ELSE @,
                                    !.rejects = IF admitted THEN @ ELSE @ + 1]
        /\ totals' = [totals EXCEPT
                        !.calls = @ + 1,
                        !.failures = IF admitted /\ ~Responded(outcome)
                                     THEN @ + 1 ELSE @,
                        !.responses = IF admitted /\ Responded(outcome)
                                      THEN @ + 1 ELSE @,
                        !.rejects = IF admitted THEN @ ELSE @ + 1]
        /\ last' = [called |-> TRUE, admitted |-> admitted,
                    outcome |-> IF admitted THEN outcome ELSE "none",
                    ret |-> ApiReturn(admitted, outcome),
                    countBefore |-> request_count, countAfter |-> after,
                    window |-> window.index,
                    firstInWindow |-> (window.calls = 0),
                    prevWindowRejected |-> (window.prevRejects > 0),
                    posted |-> admitted]
        /\ UNCHANGED <<pc, tmp, started, webVars, opVars>>

\* The window length (one minute) elapses.  No statement of the program runs.
WindowElapses ==
    /\ window.index < MaxWindows
    /\ window' = [index |-> window.index + 1, calls |-> 0, posts |-> 0,
                  rejects |-> 0, prevRejects |-> window.rejects]
    /\ UNCHANGED <<request_count, totals, last, pc, tmp, started, webVars, opVars>>

NextApi ==
    \/ \E outcome \in Outcomes : CallExternalApi(outcome)
    \/ WindowElapses



(***************************************************************************)
(* call_external_api run by concurrent callers.  The method takes no lock: *)
(* a caller can be pre-empted between the capacity check, the POST, and    *)
(* the load and the store of self.request_count += 1.                      *)
(***************************************************************************)
\* if self.request_count >= self.max_requests_per_minute: return None
T_Check(t) ==
    /\ pc[t] = "idle"
    /\ started < MaxThreadCalls
    /\ started' = started + 1
    /\ IF AtCapacity(request_count)
       THEN /\ pc' = pc
            /\ window' = [window EXCEPT !.calls = @ + 1, !.rejects = @ + 1]
            /\ totals' = [totals EXCEPT !.calls = @ + 1, !.rejects = @ + 1]
       ELSE /\ pc' = [pc EXCEPT ![t] = "post"]
            /\ window' = [window EXCEPT !.calls = @ + 1]
            /\ totals' = [totals EXCEPT !.calls = @ + 1]
    /\ UNCHANGED <<request_count, last, tmp, webVars, opVars>>

\* response = self.session.post(...)
T_Post(t, outcome) ==
    /\ pc[t] = "post"
    /\ window' = [window EXCEPT !.posts = @ + 1]
    /\ IF Responded(outcome)
       THEN /\ pc' = [pc EXCEPT ![t] = "load"]
            /\ totals' = [totals EXCEPT !.responses = @ + 1]
       ELSE /\ pc' = [pc EXCEPT ![t] = "idle"]
            /\ totals' = [totals EXCEPT !.failures = @ + 1]
    /\ UNCHANGED <<request_count, last, tmp, started, webVars, opVars>>

\* self.request_count += 1: the load of the attribute
T_Load(t) ==
    /\ pc[t] = "load"
    /\ tmp' = [tmp EXCEPT ![t] = request_count]
    /\ pc' = [pc EXCEPT ![t] = "store"]
    /\ UNCHANGED <<request_count, window, totals, last, started, webVars, opVars>>

\* self.request_count += 1: the store of the sum
T_Store(t) ==
    /\ pc[t] = "store"
    /\ request_count' = tmp[t] + 1
    /\ pc' = [pc EXCEPT ![t] = "idle"]
    /\ UNCHANGED <<window, totals, last, tmp, started, webVars, opVars>>

NextThreads ==
    \/ \E t \in Threads : T_Check(t)
    \/ \E t \in Threads, outcome \in Outcomes : T_Post(t, outcome)
    \/ \E t \in Threads : T_Load(t)
    \/ \E t \in Threads : T_Store(t)



(***************************************************************************)
(* Values handled by the webhook pipeline                                  *)
(***************************************************************************)
\* A user_id is a Python value: its type and the characters of str(user_id).
IntId     == [type |-> "int",   chars |-> <<"7">>]
StrId     == [type |-> "str",   chars |-> <<"a", "7">>]
QuoteId   == [type |-> "str",   chars |-> <<"1", ";">>]
KeywordId == [type |-> "str",   chars |-> <<"D", "r", "O", "p">>]
FloatId   == [type |-> "float", chars |-> <<"1", ".", "5">>]
NoValue   == [type |-> "absent", chars |-> <<>>]
\* the string 1"; DROP TABLE
DropTableId ==
    [type |-> "str",
     chars |-> <<"1", "\"", ";", " ", "D", "R", "O", "P", " ",
                 "T", "A", "B", "L", "E">>]

UserIds == {IntId, StrId, QuoteId, KeywordId, FloatId}

Actions == {"get_user", "update_preferences", "delete_user"}

\* A webhook payload is a JSON value: an object whose keys are kept in the
\* producer's order, or null.
NullPayload == [kind |-> "null", keys |-> <<>>, user_id |-> NoValue, action |-> ""]

DictPayloads ==
    {[kind |-> "dict", keys |-> ks, user_id |-> u, action |-> a] :
        ks \in {<<>>}, u \in {NoValue}, a \in {""}}
    \cup {[kind |-> "dict", keys |-> <<"user_id">>, user_id |-> u, action |-> ""] :
        u \in UserIds}
    \cup {[kind |-> "dict", keys |-> <<"action">>, user_id |-> NoValue, action |-> a] :
        a \in Actions}
    \cup {[kind |-> "dict", keys |-> ks, user_id |-> u, action |-> a] :
        ks \in {<<"user_id", "action">>, <<"action", "user_id">>},
        u \in UserIds, a \in Actions}

Payloads == DictPayloads \cup {NullPayload}

\* os.environ.get('WEBHOOK_SECRET'): unset, empty, or a secret
Secrets == {"<unset>", "", "k1", "k2"}

HasKey(payload, k) == \E i \in 1..Len(payload.keys) : payload.keys[i] = k

(***************************************************************************)
(* validate_webhook_signature                                              *)
(***************************************************************************)
\* The field names in the lexicographic order sort_keys=True puts them in.
KeyOrder == <<"action", "user_id">>

\* json.dumps(payload, sort_keys=True): the serialization lists the keys in
\* sorted order, whatever order the payload holds them in.
json_dumps_sorted(payload) ==
    [payload EXCEPT !.keys = SelectSeq(KeyOrder, LAMBDA k : HasKey(payload, k))]

\* hmac.new(key, msg, hashlib.sha256).hexdigest(), taken as collision free
hmac_hexdigest(key, msg) == [type |-> "hex", key |-> key, msg |-> msg]

\* A payload other than the given one
OtherPayload(payload) ==
    IF payload.kind = "dict" /\ payload.keys # <<>>
    THEN [payload EXCEPT !.keys = <<>>, !.user_id = NoValue, !.action = ""]
    ELSE [kind |-> "dict", keys |-> <<"action">>, user_id |-> NoValue,
          action |-> "get_user"]

\* The signature argument sent with a payload: the hex digest of the payload
\* or of another payload under some key, another ASCII string, a string with
\* non-ASCII characters, or None (no signature header).
Signatures(payload) ==
    {hmac_hexdigest(k, json_dumps_sorted(payload)) : k \in {"k1", "k2"}}
    \cup {hmac_hexdigest("k1", json_dumps_sorted(OtherPayload(payload)))}
    \cup {[type |-> t, key |-> "", msg |-> json_dumps_sorted(NullPayload)] :
            t \in {"ascii", "nonascii", "none"}}

\* hmac.compare_digest(a, b): TypeError unless b is an ASCII str like a
compare_digest(a, b) ==
    IF b.type \in {"nonascii", "none"} THEN "TypeError"
    ELSE IF a = b THEN "True" ELSE "False"

validate_webhook_signature_UnsetOnly(secret, payload, signature) ==
    IF secret = "<unset>" THEN "False"
    ELSE compare_digest(hmac_hexdigest(secret, json_dumps_sorted(payload)),
                        signature)

validate_webhook_signature_FailOpen(secret, payload, signature) ==
    IF secret \in {"<unset>", ""} THEN "True"
    ELSE compare_digest(hmac_hexdigest(secret, json_dumps_sorted(payload)),
                        signature)

validate_webhook_signature(secret, payload, signature) ==
    IF secret \in {"<unset>", ""} THEN "False"
    ELSE compare_digest(hmac_hexdigest(secret, json_dumps_sorted(payload)),
                        signature)

(***************************************************************************)
(* validate_user_input, connect_to_database, fetch_user_data               *)
(***************************************************************************)
\* The letters the model uses, upper case and lower case
Letters ==
    << <<"A", "a">>, <<"B", "b">>, <<"C", "c">>, <<"D", "d">>, <<"E", "e">>,
       <<"I", "i">>, <<"L", "l">>, <<"N", "n">>, <<"O", "o">>, <<"P", "p">>,
       <<"R", "r">>, <<"S", "s">>, <<"T", "t">>, <<"U", "u">> >>

\* str.lower() on the characters the model uses
LowerChar(c) ==
    IF \E i \in 1..Len(Letters) : Letters[i][1] = c
    THEN Letters[CHOOSE i \in 1..Len(Letters) : Letters[i][1] = c][2]
    ELSE c

Lower(str) == [i \in 1..Len(str) |-> LowerChar(str[i])]

\* pattern in text
Contains(text, pattern) ==
    \E i \in 1..(Len(text) - Len(pattern) + 1) :
        SubSeq(text, i, i + Len(pattern) - 1) = pattern

sql_injection_patterns ==
    << <<"'">>, <<"\"">>, <<";">>, <<"-", "-">>, <<"/", "*">>, <<"*", "/">>,
       <<"u", "n", "i", "o", "n">>, <<"s", "e", "l", "e", "c", "t">>,
       <<"d", "r", "o", "p">>, <<"d", "e", "l", "e", "t", "e">> >>

validate_user_input_NoLower(user_id) ==
    IF user_id.type \notin {"int", "bool", "str"} THEN FALSE
    ELSE ~ \E i \in 1..Len(sql_injection_patterns) :
              Contains(user_id.chars, sql_injection_patterns[i])

\* isinstance(user_id, (int, str)) holds for int, bool (a subclass of int)
\* and str
validate_user_input(user_id) ==
    IF user_id.type \notin {"int", "bool", "str"} THEN FALSE
    ELSE ~ \E i \in 1..Len(sql_injection_patterns) :
              Contains(Lower(user_id.chars), sql_injection_patterns[i])

\* str.upper() on the characters the model uses
UpperChar(c) ==
    IF \E i \in 1..Len(Letters) : Letters[i][2] = c
    THEN Letters[CHOOSE i \in 1..Len(Letters) : Letters[i][2] = c][1]
    ELSE c

\* The tokens callers may embed in an identifier: quotes, statement
\* separator, comment markers and query keywords.
EmbeddedTokens ==
    { <<"'">>, <<"\"">>, <<";">>, <<"-", "-">>, <<"/", "*">>, <<"*", "/">>,
      <<"u", "n", "i", "o", "n">>, <<"s", "e", "l", "e", "c", "t">>,
      <<"d", "r", "o", "p">>, <<"d", "e", "l", "e", "t", "e">> }

\* A token in every mix of upper and lower case
CaseVariants(token) ==
    {[i \in 1..Len(token) |-> IF i \in S THEN UpperChar(token[i]) ELSE token[i]] :
        S \in SUBSET (1..Len(token))}

Affixes == {<<>>, <<"a">>, <<"7">>}

\* Strings that embed a token between a prefix and a suffix
TokenStrings ==
    {pre \o v \o suf :
        pre \in Affixes, suf \in Affixes,
        v \in UNION {CaseVariants(token) : token \in EmbeddedTokens}}

\* Every string of up to MaxIdLen characters over the characters the comment
\* markers are made of and a letter
ShortStrings == UNION {[1..n -> {"-", "/", "*", "d"}] : n \in 0..MaxIdLen}

\* Values that are no str: int, bool, float, None, list, bytes
OtherValues ==
    {[type |-> "int",   chars |-> <<"7">>],
     [type |-> "int",   chars |-> <<"-", "7">>],
     [type |-> "bool",  chars |-> <<"T", "r", "u", "e">>],
     [type |-> "float", chars |-> <<"1", ".", "5">>],
     [type |-> "none",  chars |-> <<"N", "o", "n", "e">>],
     [type |-> "list",  chars |-> <<"[", "'", "a", "'", "]">>],
     [type |-> "bytes", chars |-> <<"b", "'", "a", "'">>]}

\* The values validate_user_input is called with
Identifiers ==
    {[type |-> "str", chars |-> c] : c \in TokenStrings \cup ShortStrings}
    \cup OtherValues \cup UserIds \cup {DropTableId}

\* One whole call of validate_user_input.
ValidateUserInput(user_id) ==
    /\ ~validated.made
    /\ validated' = [made |-> TRUE, user_id |-> user_id,
                     ret |-> validate_user_input(user_id)]
    /\ UNCHANGED <<rateVars, webVars, fetchVars, upload, verified>>

NextValidate == \E user_id \in Identifiers : ValidateUserInput(user_id)

\* What the storage layer does during one fetch_user_data call: the query and
\* conn.close() are reached only when connect_to_database returned a cursor.
StorageEnvs ==
    {env \in [connect : {"ok", "connect_fails", "schema_fails"},
              query   : {"row", "norow", "raises", "unreached"},
              close   : {"ok", "raises", "unreached"}] :
        /\ (env.connect = "ok") = (env.query # "unreached")
        /\ (env.connect = "ok") = (env.close # "unreached")}

\* connect_to_database: the storage events, and whether a cursor is returned
connect_to_database(env) ==
    CASE env.connect = "ok" ->
            [db |-> <<"connect", "create_tables", "commit">>, cursor |-> TRUE]
      [] env.connect = "schema_fails" ->
            [db |-> <<"connect">>, cursor |-> FALSE]
      [] OTHER ->
            [db |-> <<>>, cursor |-> FALSE]

fetch_user_data_NoValidation(user_id, env) ==
    LET c == connect_to_database(env)
    IN  IF ~c.cursor THEN [ret |-> "None", db |-> c.db]
        ELSE [ret |-> IF env.close = "raises" THEN "raise"
                      ELSE IF env.query = "row" THEN "Record"
                      ELSE "None",
              db |-> c.db \o <<"execute", "close">>]

\* fetch_user_data: the value returned ("raise" when the exception of
\* conn.close() in the finally clause propagates) and the storage events
fetch_user_data(user_id, env) ==
    IF ~validate_user_input(user_id) THEN [ret |-> "None", db |-> <<>>]
    ELSE LET c == connect_to_database(env)
         IN  IF ~c.cursor THEN [ret |-> "None", db |-> c.db]
             ELSE [ret |-> IF env.close = "raises" THEN "raise"
                           ELSE IF env.query = "row" THEN "Record"
                           ELSE "None",
                   db |-> c.db \o <<"execute", "close">>]

\* The identifiers fetch_user_data is called with
FetchIds == UserIds \cup {DropTableId}

NoFetch ==
    [made |-> FALSE, user_id |-> NoValue,
     env |-> [connect |-> "ok", query |-> "row", close |-> "ok"],
     ret |-> "None", db |-> <<>>]

InitFetch ==
    /\ fetch = NoFetch
    /\ prevFetch = NoFetch
    /\ fetches = 0
    /\ audit_log = <<>>

\* One whole call of fetch_user_data.  No statement of connect_to_database
\* or fetch_user_data inserts into audit_log: the table is only created.
FetchUserData(user_id, env) ==
    LET out == fetch_user_data(user_id, env)
    IN  /\ fetches < MaxFetches
        /\ fetches' = fetches + 1
        /\ prevFetch' = fetch
        /\ fetch' = [made |-> TRUE, user_id |-> user_id, env |-> env,
                     ret |-> out.ret, db |-> out.db]
        /\ audit_log' = audit_log
        /\ UNCHANGED <<rateVars, webVars, libVars>>

NextFetch ==
    \E user_id \in FetchIds, env \in StorageEnvs : FetchUserData(user_id, env)

\* The payload as a producer holding the keys in the opposite order has it
ReverseKeys(payload) ==
    [payload EXCEPT !.keys = [i \in 1..Len(@) |-> @[Len(@) + 1 - i]]]

\* The signatures validate_webhook_signature is called with: those of
\* Signatures, the digest a producer holding the keys in the opposite order
\* computes over its sorted serialization, and the digest computed over the
\* serialization in the payload's own key order (sort_keys left out).
VerifierSignatures(payload) ==
    Signatures(payload)
    \cup {hmac_hexdigest(k, json_dumps_sorted(ReverseKeys(payload))) :
            k \in {"k1", "k2"}}
    \cup {hmac_hexdigest(k, payload) : k \in {"k1", "k2"}}

\* One whole call of validate_webhook_signature.
ValidateWebhookSignature(payload, signature) ==
    /\ verified' = [made |-> TRUE, payload |-> payload, signature |-> signature,
                    ret |-> validate_webhook_signature(WEBHOOK_SECRET, payload,
                                                      signature)]
    /\ UNCHANGED <<rateVars, webVars, fetchVars, upload, validated>>

NextVerify ==
    \E payload \in Payloads :
        \E signature \in VerifierSignatures(payload) :
            ValidateWebhookSignature(payload, signature)

(***************************************************************************)
(* upload_to_cloud                                                         *)
(***************************************************************************)
\* A file path is a sequence of components: the separator, the dot, and
\* runs of other characters.
PathTokens == {"/", ".", "a", "txt", "TXT", "exe"}

FilePaths == UNION {[1..n -> PathTokens] : n \in 1..MaxPathLen}

\* What the environment does during one upload_to_cloud call: whether boto3
\* can be imported, whether boto3.client(...) returns a client, and what
\* s3_client.upload_file does.
UploadEnvs ==
    [boto3    : {"installed", "missing"},
     client   : {"ok", "fails"},
     transfer : {"ok", "client_error", "other_error"}]

\* p.rfind(c) + 1
LastIndexOf(path, c) ==
    IF \E i \in 1..Len(path) : path[i] = c
    THEN CHOOSE i \in 1..Len(path) :
            path[i] = c /\ \A j \in (i + 1)..Len(path) : path[j] # c
    ELSE 0

\* os.path.splitext(file_path)[1]: from the last dot of the file name on,
\* unless the name has nothing but dots before it
splitext_ext(path) ==
    LET sep == LastIndexOf(path, "/")
        dot == LastIndexOf(path, ".")
    IN  IF dot > sep /\ \E k \in (sep + 1)..(dot - 1) : path[k] # "."
        THEN SubSeq(path, dot, Len(path))
        ELSE <<>>

\* str.lower() on the components the model uses
LowerToken(t) == IF t = "TXT" THEN "txt" ELSE t

LowerPath(path) == [i \in 1..Len(path) |-> LowerToken(path[i])]

allowed_extensions ==
    {<<".", "txt">>, <<".", "csv">>, <<".", "json">>, <<".", "log">>}

\* upload_to_cloud: the value returned ("raise" when an exception leaves the
\* method) and what was done with the storage client.
upload_to_cloud(file_path, env) ==
    \* import boto3 raises ImportError before ClientError is bound; matching
    \* the ImportError against `except ClientError` raises UnboundLocalError
    IF env.boto3 = "missing" THEN [ret |-> "raise", events |-> <<>>]
    \* boto3.client(...) raises: except Exception
    ELSE IF env.client = "fails"
    THEN [ret |-> "False", events |-> <<"client_failed">>]
    ELSE IF LowerPath(splitext_ext(file_path)) \notin allowed_extensions
    THEN [ret |-> "False", events |-> <<"client">>]
    ELSE [ret |-> IF env.transfer = "ok" THEN "True" ELSE "False",
          events |-> <<"client", "upload_file">>]

NoUpload ==
    [made |-> FALSE, file_path |-> <<>>,
     env |-> [boto3 |-> "installed", client |-> "ok", transfer |-> "ok"],
     ret |-> "False", events |-> <<>>]

\* One whole call of upload_to_cloud.
UploadToCloud(file_path, env) ==
    LET out == upload_to_cloud(file_path, env)
    IN  /\ ~upload.made
        /\ upload' = [made |-> TRUE, file_path |-> file_path, env |-> env,
                      ret |-> out.ret, events |-> out.events]
        /\ UNCHANGED <<rateVars, webVars, fetchVars, validated, verified>>

NextUpload ==
    \E file_path \in FilePaths, env \in UploadEnvs : UploadToCloud(file_path, env)

(***************************************************************************)
(* process_webhook_data                                                    *)
(***************************************************************************)
Result(status, message, detail, data) ==
    [status |-> status, message |-> message, detail |-> detail, data |-> data]

Rejection(message, detail, passed) ==
    [response |-> Result("error", message, detail, ""),
     stages |-> passed \o <<"Rejected">>, handler |-> "none", db |-> <<>>]

InternalError(passed, invoked, events) ==
    [response |-> Result("error", "Internal server error", "", ""),
     stages |-> passed \o <<"InternalError">>, handler |-> invoked,
     db |-> events]

required_fields_UserIdOnly == <<"user_id">>

required_fields == <<"user_id", "action">>

allowed_actions_WithDelete == {"get_user", "update_preferences", "delete_user"}

allowed_actions == {"get_user", "update_preferences"}

\* for field in required_fields: if field not in webhook_data: return ...
\* The first required field the payload lacks, "" when it has them all.
FirstMissing(payload) ==
    LET missing == SelectSeq(required_fields, LAMBDA f : ~HasKey(payload, f))
    IN  IF missing = <<>> THEN "" ELSE Head(missing)

RunAction_NoElse(payload, env, passed) ==
    LET f == fetch_user_data(payload.user_id, env)
    IN  IF f.ret = "raise"
        THEN InternalError(passed, "fetch_user_data", f.db)
        ELSE [response |-> Result("success", "", "", f.ret),
              stages |-> passed \o <<"Executed">>,
              handler |-> "fetch_user_data", db |-> f.db]

\* if action == 'get_user': ... else: ...
RunAction(payload, env, passed) ==
    IF payload.action = "get_user"
    THEN LET f == fetch_user_data(payload.user_id, env)
         IN  IF f.ret = "raise"
             THEN InternalError(passed, "fetch_user_data", f.db)
             ELSE [response |-> Result("success", "", "", f.ret),
                   stages |-> passed \o <<"Executed">>,
                   handler |-> "fetch_user_data", db |-> f.db]
    ELSE [response |-> Result("error", "Action not implemented", "", ""),
          stages |-> passed \o <<"Executed">>, handler |-> "none", db |-> <<>>]

\* The try block of process_webhook_data with its except clause.
Dispatch(payload, env) ==
    LET checked == <<"Received", "SignatureChecked">>
        fields  == checked \o <<"FieldsValidated">>
    IN  \* field not in webhook_data: TypeError when the payload is None
        IF payload.kind # "dict" THEN InternalError(checked, "none", <<>>)
        ELSE IF FirstMissing(payload) # ""
        THEN Rejection("Missing required field", FirstMissing(payload), checked)
        \* webhook_data['user_id'], webhook_data['action']: KeyError
        ELSE IF ~HasKey(payload, "user_id") \/ ~HasKey(payload, "action")
        THEN InternalError(checked, "none", <<>>)
        ELSE IF payload.action \notin allowed_actions
        THEN Rejection("Action not allowed", payload.action, fields)
        ELSE RunAction(payload, env, fields \o <<"ActionAuthorized">>)

process_webhook_data_FieldsFirst(secret, payload, signature, env) ==
    LET valid == validate_webhook_signature(secret, payload, signature)
    IN  IF payload.kind = "dict" /\ FirstMissing(payload) # ""
        THEN Dispatch(payload, env)
        ELSE CASE valid = "TypeError" ->
                    [response |-> Result("raised", "TypeError", "", ""),
                     stages |-> <<"Received", "Raised">>, handler |-> "none",
                     db |-> <<>>]
               [] valid = "False" ->
                    Rejection("Invalid signature", "", <<"Received">>)
               [] OTHER -> Dispatch(payload, env)

\* process_webhook_data: the signature is verified before the try block, so
\* an exception of validate_webhook_signature leaves the method.
process_webhook_data(secret, payload, signature, env) ==
    LET valid == validate_webhook_signature(secret, payload, signature)
    IN  CASE valid = "TypeError" ->
                [response |-> Result("raised", "TypeError", "", ""),
                 stages |-> <<"Received", "Raised">>, handler |-> "none",
                 db |-> <<>>]
          [] valid = "False" ->
                Rejection("Invalid signature", "", <<"Received">>)
          [] OTHER -> Dispatch(payload, env)

NoRequest ==
    [made |-> FALSE, payload |-> NullPayload,
     signature |-> [type |-> "none", key |-> "",
                    msg |-> json_dumps_sorted(NullPayload)]]

InitWebhook ==
    /\ WEBHOOK_SECRET \in Secrets
    /\ request = NoRequest
    /\ response = Result("none", "", "", "")
    /\ stages = <<>>
    /\ handler = "none"
    /\ db = <<>>
    /\ handled = 0

\* Nothing has been called yet.
InitLib ==
    /\ upload = NoUpload
    /\ validated = [made |-> FALSE, user_id |-> NoValue, ret |-> FALSE]
    /\ verified = [made |-> FALSE, payload |-> NullPayload,
                   signature |-> NoRequest.signature, ret |-> "False"]

Init == InitRate /\ InitWebhook /\ InitFetch /\ InitLib

\* One whole call of process_webhook_data.
ProcessWebhookData(payload, signature, env) ==
    LET out == process_webhook_data(WEBHOOK_SECRET, payload, signature, env)
    IN  /\ handled < MaxRequests
        /\ handled' = handled + 1
        /\ request' = [made |-> TRUE, payload |-> payload, signature |-> signature]
        /\ response' = out.response
        /\ stages' = out.stages
        /\ handler' = out.handler
        /\ db' = out.db
        /\ verified' = [made |-> TRUE, payload |-> payload,
                        signature |-> signature,
                        ret |-> validate_webhook_signature(WEBHOOK_SECRET,
                                                          payload, signature)]
        /\ UNCHANGED <<WEBHOOK_SECRET, rateVars, fetchVars, upload, validated>>

NextWebhook ==
    \E payload \in Payloads :
        \E signature \in Signatures(payload), env \in StorageEnvs :
            ProcessWebhookData(payload, signature, env)

SpecWebhook == Init /\ [][NextWebhook]_vars

(***************************************************************************)
(* Specifications: one caller of call_external_api, concurrent callers of  *)
(* call_external_api, and callers of process_webhook_data.                 *)
(***************************************************************************)
SpecApi == Init /\ [][NextApi]_vars

SpecThreads == Init /\ [][NextThreads]_vars

SpecFetch == Init /\ [][NextFetch]_vars

SpecUpload == Init /\ [][NextUpload]_vars

SpecValidate == Init /\ [][NextValidate]_vars

SpecVerify == Init /\ [][NextVerify]_vars

(***************************************************************************)
(* Properties of the outbound call limiter                                 *)
(***************************************************************************)
\* C1: the number of outbound POSTs issued within one window never exceeds
\* the capacity max_requests_per_minute, whatever the POSTs' outcomes.
C1_PostsWithinCapacity == window.posts <= max_requests_per_minute

\* C2: under concurrent callers the capacity check and the increment are one
\* atomic step: the calls admitted and answered never outnumber the capacity,
\* and once every caller has returned request_count equals the number of
\* increments that were executed (one per response received).
C2_AtomicCheckAndIncrement ==
    /\ totals.responses <= max_requests_per_minute
    /\ (\A t \in Threads : pc[t] = "idle") => request_count = totals.responses

\* C3: a call that is the first one after the window length has elapsed,
\* when a call was rejected at capacity in the window before, finds the
\* counter reset to zero and is admitted.
C3_ResetAfterWindow ==
    (last.called /\ last.firstInWindow /\ last.prevWindowRejected)
        => (last.admitted /\ last.countAfter <= 1)

\* C4: from a fresh processor, consecutive calls within one window that all
\* get a response are admitted exactly max_requests_per_minute times: the
\* k-th call is admitted iff k <= capacity, so call capacity + 1 is rejected.
C4_AdmitExactlyCapacity ==
    (last.called /\ window.index = 0 /\ totals.failures = 0)
        => /\ last.admitted <=> (totals.calls <= max_requests_per_minute)
           /\ totals.responses = IF totals.calls <= max_requests_per_minute
                                 THEN totals.calls
                                 ELSE max_requests_per_minute

C4_Witness ==
    /\ last.called /\ window.index = 0 /\ totals.failures = 0
    /\ totals.calls = max_requests_per_minute + 1
    /\ totals.responses = max_requests_per_minute
    /\ ~last.admitted

\* C5: a call made when request_count has reached the capacity is rejected
\* without side effects: it issues no POST, leaves request_count unchanged
\* and returns None.
C5_RejectWithoutSideEffects ==
    [][(request_count >= max_requests_per_minute
            /\ totals'.calls = totals.calls + 1)
         => /\ request_count' = request_count
            /\ window'.posts = window.posts
            /\ ~last'.posted
            /\ last'.ret = "None"]_vars

C5_Witness ==
    /\ last.called /\ ~last.admitted /\ ~last.posted
    /\ last.countBefore = max_requests_per_minute
    /\ last.countAfter = max_requests_per_minute

(***************************************************************************)
(* Properties of the webhook pipeline                                      *)
(***************************************************************************)
\* The signature sent is the keyed hash of the payload's key-sorted
\* serialization under the configured secret.
Genuine ==
    /\ WEBHOOK_SECRET \notin {"<unset>", ""}
    /\ request.signature =
          hmac_hexdigest(WEBHOOK_SECRET, json_dumps_sorted(request.payload))

\* The verifier answers false: no secret is configured, or the signature is
\* an ASCII string other than the expected digest.
SignatureRefused ==
    \/ WEBHOOK_SECRET \in {"<unset>", ""}
    \/ /\ request.signature.type \in {"hex", "ascii"}
       /\ ~Genuine

HasBothFields ==
    /\ request.payload.kind = "dict"
    /\ HasKey(request.payload, "user_id")
    /\ HasKey(request.payload, "action")

LacksField ==
    /\ request.payload.kind = "dict"
    /\ ~(HasKey(request.payload, "user_id") /\ HasKey(request.payload, "action"))

\* C6: process_webhook_data never lets an exception escape: every call
\* returns a structured result, whatever the payload and the signature.
C6_NoExceptionEscapes ==
    request.made => response.status \in {"error", "success"}

\* C7: storage and fetch_user_data are reached only after the signature was
\* verified, both required fields were found and the action was found in
\* the allow-list, in that order; a request failing one of the three checks
\* ends in Rejected there, with no later stage and no storage access.
C7_PrivilegedOnlyAfterChecks ==
    request.made =>
        /\ (handler = "fetch_user_data" \/ db # <<>>) =>
              /\ Genuine
              /\ HasBothFields
              /\ request.payload.action \in {"get_user", "update_preferences"}
              /\ Len(stages) >= 4
              /\ SubSeq(stages, 1, 4) = <<"Received", "SignatureChecked",
                                          "FieldsValidated", "ActionAuthorized">>
        /\ SignatureRefused => stages = <<"Received", "Rejected">>
        /\ (Genuine /\ LacksField) =>
              stages = <<"Received", "SignatureChecked", "Rejected">>
        /\ (Genuine /\ HasBothFields
                /\ request.payload.action \notin {"get_user", "update_preferences"}) =>
              stages = <<"Received", "SignatureChecked", "FieldsValidated",
                         "Rejected">>
        /\ (\E i \in 1..Len(stages) : stages[i] = "Rejected") =>
              (handler = "none" /\ db = <<>>)

C7_Witness ==
    /\ request.made /\ Genuine
    /\ handler = "fetch_user_data"
    /\ db = <<"connect", "create_tables", "commit", "execute", "close">>
    /\ stages = <<"Received", "SignatureChecked", "FieldsValidated",
                  "ActionAuthorized", "Executed">>

\* C8: when the verifier answers false the call ends with the error result
\* 'Invalid signature', whatever fields the payload holds, and no field
\* validation, action check or storage access takes place.
C8_InvalidSignatureResult ==
    (request.made /\ SignatureRefused) =>
        /\ response = Result("error", "Invalid signature", "", "")
        /\ stages = <<"Received", "Rejected">>
        /\ handler = "none"
        /\ db = <<>>

C8_Witness ==
    /\ request.made /\ SignatureRefused
    /\ WEBHOOK_SECRET = "k1" /\ request.signature.type = "hex"
    /\ LacksField
    /\ response.message = "Invalid signature"

\* C9: a validly signed payload that lacks a required field gets an error
\* result whose message names a field the payload lacks, not the
\* invalid-signature result, and reaches neither the action check nor a
\* handler.
C9_MissingFieldResult ==
    (request.made /\ Genuine /\ LacksField) =>
        /\ response.status = "error"
        /\ response.message = "Missing required field"
        /\ response.detail \in {"user_id", "action"}
        /\ ~HasKey(request.payload, response.detail)
        /\ \A i \in 1..Len(stages) :
              stages[i] \notin {"FieldsValidated", "ActionAuthorized", "Executed"}
        /\ handler = "none"
        /\ db = <<>>

C9_Witness ==
    /\ request.made /\ Genuine
    /\ HasKey(request.payload, "user_id") /\ ~HasKey(request.payload, "action")
    /\ response = Result("error", "Missing required field", "action", "")

\* C10: with a valid signature and both required fields, an action outside
\* the allow-list ('get_user', 'update_preferences') gets an error result
\* whose message names that action, and no handler is invoked.
C10_DisallowedActionResult ==
    (request.made /\ Genuine /\ HasBothFields
        /\ request.payload.action \notin {"get_user", "update_preferences"}) =>
        /\ response = Result("error", "Action not allowed",
                             request.payload.action, "")
        /\ handler = "none"
        /\ db = <<>>

C10_Witness ==
    /\ request.made /\ Genuine /\ HasBothFields
    /\ request.payload.action = "delete_user"
    /\ response = Result("error", "Action not allowed", "delete_user", "")
    /\ handler = "none"

(***************************************************************************)
(* Properties of fetch_user_data                                           *)
(***************************************************************************)
CountEvents(events, e) ==
    Cardinality({i \in 1..Len(events) : events[i] = e})

\* What a fetch_user_data call met: an identifier the validator rejects, a
\* storage failure, an exception of conn.close(), a row, or no row.
FetchCase(f) ==
    IF ~validate_user_input(f.user_id) THEN "rejected"
    ELSE IF f.env.connect # "ok" THEN "storage_failure"
    ELSE IF f.env.close = "raises" THEN "close_raises"
    ELSE IF f.env.query = "raises" THEN "storage_failure"
    ELSE IF f.env.query = "row" THEN "found"
    ELSE "absent"

\* C11: a validly signed 'get_user' request whose user_id the validator
\* rejects gets an error result, never a success result.
C11_ValidationFailureIsError ==
    (request.made /\ Genuine /\ HasBothFields
        /\ request.payload.action = "get_user"
        /\ ~validate_user_input(request.payload.user_id))
        => response.status = "error"

\* C12: fetch_user_data called with an identifier the validator rejects (such
\* as 1"; DROP TABLE) returns None without touching storage: no connection
\* is opened and no query is executed; so a query is only ever executed with
\* an identifier that passed the validator.
C12_RejectedIdNeverReachesStorage ==
    fetch.made =>
        /\ ~validate_user_input(fetch.user_id) =>
              (fetch.ret = "None" /\ fetch.db = <<>>)
        /\ fetch.user_id \in {DropTableId, QuoteId, KeywordId, FloatId} =>
              (fetch.ret = "None" /\ fetch.db = <<>>)
        /\ CountEvents(fetch.db, "execute") > 0 =>
              (validate_user_input(fetch.user_id)
                  /\ fetch.user_id \in {IntId, StrId})

C12_Witness ==
    /\ fetch.made /\ fetch.user_id = DropTableId
    /\ fetch.env = [connect |-> "ok", query |-> "row", close |-> "ok"]
    /\ fetch.ret = "None" /\ fetch.db = <<>>

\* C13: every storage connection opened during a fetch_user_data call has
\* been closed when the call ends, on every exit path.
C13_ConnectionsClosed ==
    fetch.made =>
        CountEvents(fetch.db, "connect") = CountEvents(fetch.db, "close")

\* C14: every fetch_user_data call, whatever its outcome, appends exactly one
\* audit record.
C14_OneAuditRecordPerCall == Len(audit_log) = fetches

\* C15: an absent record is never reported with the same outcome as a
\* rejection by the validator or a storage failure.
C15_AbsentDistinctFromRejected ==
    (fetch.made /\ prevFetch.made
        /\ FetchCase(fetch) = "absent"
        /\ FetchCase(prevFetch) \in {"rejected", "storage_failure"})
        => fetch.ret # prevFetch.ret

(***************************************************************************)
(* Properties of upload_to_cloud                                           *)
(***************************************************************************)
\* The file's extension, lower-cased, is one of .txt, .csv, .json, .log.
ExtensionAllowed(path) ==
    LowerPath(splitext_ext(path)) \in
        {<<".", "txt">>, <<".", "csv">>, <<".", "json">>, <<".", "log">>}

\* C16: upload_to_cloud returns False for every file whose extension is
\* outside the allow-list, whether or not the client library can be imported
\* or the client created, and starts no transfer for such a file.
C16_DisallowedExtensionReturnsFalse ==
    (upload.made /\ ~ExtensionAllowed(upload.file_path)) =>
        /\ upload.ret = "False"
        /\ CountEvents(upload.events, "upload_file") = 0

\* C17: upload_to_cloud never raises: whatever fails while the storage
\* client is obtained or the file is transferred, it returns False.
C17_UploadNeverRaises ==
    upload.made =>
        /\ upload.ret \in {"True", "False"}
        /\ (upload.env.boto3 = "missing" \/ upload.env.client = "fails"
                \/ upload.env.transfer # "ok") => upload.ret # "True"

(***************************************************************************)
(* Properties of validate_user_input                                       *)
(***************************************************************************)
\* The text contains the token, letters compared without regard to case.
ContainsIgnoringCase(text, token) ==
    \E i \in 1..(Len(text) - Len(token) + 1) :
        \A j \in 1..Len(token) :
            text[i + j - 1] \in {token[j], UpperChar(token[j])}

\* The deny-listed tokens: single quote, double quote, ';', '--', '/*',
\* '*/', 'union', 'select', 'drop', 'delete'.
DenyListed(text) ==
    \/ ContainsIgnoringCase(text, <<"'">>)
    \/ ContainsIgnoringCase(text, <<"\"">>)
    \/ ContainsIgnoringCase(text, <<";">>)
    \/ ContainsIgnoringCase(text, <<"-", "-">>)
    \/ ContainsIgnoringCase(text, <<"/", "*">>)
    \/ ContainsIgnoringCase(text, <<"*", "/">>)
    \/ ContainsIgnoringCase(text, <<"u", "n", "i", "o", "n">>)
    \/ ContainsIgnoringCase(text, <<"s", "e", "l", "e", "c", "t">>)
    \/ ContainsIgnoringCase(text, <<"d", "r", "o", "p">>)
    \/ ContainsIgnoringCase(text, <<"d", "e", "l", "e", "t", "e">>)

\* C20: validate_user_input returns false for every identifier whose string
\* form contains a deny-listed token, in any mix of case, and for every
\* identifier that is neither numeric (int, bool, float) nor a string.
C20_DenyListedIsRejected ==
    validated.made =>
        /\ DenyListed(validated.user_id.chars) => validated.ret = FALSE
        /\ validated.user_id.type \notin {"int", "bool", "float", "str"} =>
              validated.ret = FALSE

C20_Witness ==
    /\ validated.made
    /\ validated.user_id =
          [type |-> "str", chars |-> <<"a", "S", "e", "L", "e", "c", "T", "7">>]
    /\ validated.ret = FALSE

(***************************************************************************)
(* Properties of validate_webhook_signature                                *)
(***************************************************************************)
\* The key-sorted serialization of a payload: its keys in the order
\* "action" before "user_id".
Canonical(payload) ==
    [payload EXCEPT !.keys =
        CHOOSE ks \in {<<>>, <<"action">>, <<"user_id">>, <<"action", "user_id">>} :
            \A k \in {"action", "user_id"} :
                HasKey(payload, k) <=> (\E i \in 1..Len(ks) : ks[i] = k)]

\* C18: with no webhook secret configured (unset or empty) the verifier
\* answers false for every payload and every signature, and
\* process_webhook_data rejects every request.
C18_FailsClosed ==
    (request.made /\ WEBHOOK_SECRET \in {"<unset>", ""}) =>
        /\ verified.made
        /\ verified.payload = request.payload
        /\ verified.signature = request.signature
        /\ verified.ret = "False"
        /\ response = Result("error", "Invalid signature", "", "")
        /\ handler = "none"
        /\ db = <<>>

C18_Witness ==
    /\ request.made /\ WEBHOOK_SECRET = ""
    /\ HasBothFields /\ request.payload.action = "get_user"
    /\ request.signature.type = "none"
    /\ verified.ret = "False"
    /\ response.message = "Invalid signature"

\* C19: with a secret configured, the verifier answers true when the
\* signature (a string) is the keyed hash of the payload's key-sorted
\* serialization under the secret, whatever order the payload holds its keys
\* in, and answers false when the signature is any other string.
C19_VerifiesExactlyTheKeyedHash ==
    (verified.made /\ WEBHOOK_SECRET \notin {"<unset>", ""}
        /\ verified.signature.type \in {"hex", "ascii", "nonascii"}) =>
        IF verified.signature =
              hmac_hexdigest(WEBHOOK_SECRET, Canonical(verified.payload))
        THEN verified.ret = "True"
        ELSE verified.ret = "False"

(***************************************************************************)
(* Properties of what call_external_api reports and counts                 *)
(***************************************************************************)
\* The values call_external_api returns when the POST was issued and failed:
\* a response other than 200, a timeout, another request error.
FailureReturns == {ApiReturn(TRUE, outcome) : outcome \in Outcomes \ {"ok200"}}

\* C21: a call refused at the capacity check returns a value that no failed
\* POST (timeout, request error, non-200 response) returns, so the caller
\* can tell capacity exhaustion from a transport failure.
C21_RejectionDistinctFromFailures ==
    (last.called /\ ~last.admitted) => last.ret \notin FailureReturns

\* C22: every call that passes the capacity check raises request_count by
\* exactly one, whether the POST returns a response of any status, times
\* out or raises a request error.
C22_CountedOnEveryAttempt ==
    (last.called /\ last.admitted) => last.countAfter = last.countBefore + 1

(***************************************************************************)
(* Properties of process_webhook_data, continued                           *)
(***************************************************************************)
\* C23: with a valid signature and both required fields, the allow-listed
\* action without a handler ('update_preferences') gets the structured
\* 'Action not implemented' error result: nothing is raised, no handler is
\* invoked and the storage is not accessed.
C23_UnimplementedActionResult ==
    (request.made /\ Genuine /\ HasBothFields
        /\ request.payload.action = "update_preferences") =>
        /\ response = Result("error", "Action not implemented", "", "")
        /\ handler = "none"
        /\ db = <<>>

C23_Witness ==
    /\ request.made /\ Genuine /\ HasBothFields
    /\ request.payload.action = "update_preferences"
    /\ response = Result("error", "Action not implemented", "", "")
    /\ stages = <<"Received", "SignatureChecked", "FieldsValidated",
                  "ActionAuthorized", "Executed">>
    /\ db = <<>>

====
